---- MODULE Spec2Model ----
(***************************************************************************)
(* Server list item cards of the Outline client (server-row-card and       *)
(* server-hero-card): the shared derivation getSharedComponents, the two   *)
(* render methods, the handlers their templates install, and the owner of  *)
(* the ServerListItem that the cards display.                              *)
(*                                                                         *)
(* JavaScript values that are not strings are written as reserved strings  *)
(* (JsUndefined, JsFalse) so that a field or a template expression can     *)
(* hold either; no server field and no localized string equals them.       *)
(***************************************************************************)
EXTENDS Integers, Sequences, FiniteSets, TLC

VARIABLES
    card,           \* which element class this is: "row" or "hero"
    server,         \* the ServerListItem object that this.server refers to
    updatePending,  \* the framework has an update (a render) scheduled
    view,           \* what the last render put in the DOM (texts, attributes, listeners)
    shown,          \* the connectionState and errorMessageId the last render read
    menuRef,        \* menu.value is the <mwc-menu> element (FALSE: still undefined)
    menuOpen,       \* the <mwc-menu>'s open property
    hostOpen,       \* an "open" property set on the card element itself
    localizerCalls, \* the message ids the last render passed to the localizer
    last,           \* the latest operation and what its handler did
    dispatched      \* the events the latest operation dispatched, in order

vars == <<card, server, updatePending, view, shown, menuRef, menuOpen, hostOpen,
          localizerCalls, last, dispatched>>

JsUndefined == "<undefined>"
JsFalse == "<false>"

\* ---------------------------------------------------------------- data

CONNECTING == "connecting"
CONNECTED == "connected"
RECONNECTING == "reconnecting"
DISCONNECTING == "disconnecting"
DISCONNECTED == "disconnected"

ServerConnectionState ==
    {CONNECTING, CONNECTED, RECONNECTING, DISCONNECTING, DISCONNECTED}

CONNECT == "ConnectPressed"
DISCONNECT == "DisconnectPressed"
FORGET == "ForgetPressed"
RENAME == "ShowServerRename"

ServerListItemEvent == {CONNECT, DISCONNECT, FORGET, RENAME}

ServerIds == {"server-1", "server-2"}
ServerNames == {JsUndefined, "", "My Server"}
ErrorMessageIds == {JsUndefined, "", "error-timeout"}

ServerListItem ==
    [disabled : {FALSE},
     errorMessageId : ErrorMessageIds,
     isOutlineServer : BOOLEAN,
     address : {"192.0.2.1:443"},
     id : ServerIds,
     name : ServerNames,
     connectionState : ServerConnectionState]

\* The injected localizer: a lookup that returns a string other than its key.
localizer(messageID) == "L10N[" \o messageID \o "]"

\* JavaScript's Boolean(x) on the values a field can hold.
Boolean(x) == x \notin {JsUndefined, JsFalse, ""}

\* What a child expression of a template shows for a value: nothing for
\* undefined and the empty string, the value's string form otherwise.
ChildText(value) ==
    IF value \in {JsUndefined, ""} THEN ""
    ELSE IF value = JsFalse THEN "false"
    ELSE value

\* ------------------------------------------- getSharedComponents

\* A connected-ish test that forgets the reconnecting state.
isConnectedState_NoReconnecting(connectionState) ==
    connectionState \in {CONNECTING, CONNECTED}

isConnectedState(connectionState) ==
    connectionState \in {CONNECTING, CONNECTED, RECONNECTING}

hasErrorMessage(s) == Boolean(s.errorMessageId)

DefaultNameKey(s) ==
    IF s.isOutlineServer THEN "server-default-name-outline" ELSE "server-default-name"

\* server.name ?? localizer(...): the right side only for null/undefined.
serverName(s) ==
    IF s.name # JsUndefined THEN s.name ELSE localizer(DefaultNameKey(s))

\* hasErrorMessage && localizer(server.errorMessageId)
error(s) ==
    IF hasErrorMessage(s) THEN localizer(s.errorMessageId) ELSE JsFalse

\* The two labels the wrong way round.
ConnectButtonKey_Swapped(s) ==
    IF isConnectedState(s.connectionState)
    THEN "connect-button-label" ELSE "disconnect-button-label"

ConnectButtonKey(s) ==
    IF isConnectedState(s.connectionState)
    THEN "disconnect-button-label" ELSE "connect-button-label"

connectButton(s) == localizer(ConnectButtonKey(s))

\* An event that stops at the shadow root (composed left out).
CustomEvent_NotComposed(type, s) ==
    [type |-> type, detail |-> [serverId |-> s.id], bubbles |-> TRUE, composed |-> FALSE]

CustomEvent(type, s) ==
    [type |-> type, detail |-> [serverId |-> s.id], bubbles |-> TRUE, composed |-> TRUE]

\* dispatcher is the element's dispatchEvent taken off the element by
\* destructuring and called as a plain function: with no receiver the call
\* falls on the global object, which is where the event is dispatched.
dispatcher(event) == <<[event |-> event, target |-> "window"]>>

beginRename(s) == dispatcher(CustomEvent(RENAME, s))

forget(s) == dispatcher(CustomEvent(FORGET, s))

connectToggle(s) ==
    dispatcher(CustomEvent(IF isConnectedState(s.connectionState) THEN DISCONNECT ELSE CONNECT, s))

\* @click=${menu.value?.show}: undefined while menu.value is, else the
\* menu's show method, detached from the menu.
MenuTriggerClick(ref) == IF ref THEN "show" ELSE JsUndefined

\* The message ids getSharedComponents passes to the localizer.
SharedLocalizerCalls(s) ==
    (IF s.name = JsUndefined THEN {DefaultNameKey(s)} ELSE {})
    \cup (IF hasErrorMessage(s) THEN {s.errorMessageId} ELSE {})
    \cup {ConnectButtonKey(s), "server-rename", "server-forget"}

\* ------------------------------------------------------ the two renders

ConnectionStatusKey(s) == s.connectionState \o "-server-state"

\* The click listener bound whatever the error state.
HeroIndicatorClick_Always(s) == "connectToggle"

\* @click="${!this.server.errorMessageId && dispatchers.connectToggle}"
HeroIndicatorClick(s) ==
    IF ~Boolean(s.errorMessageId) THEN "connectToggle" ELSE JsFalse

\* A footer button that is never disabled.
ButtonDisabled_Never(s) == FALSE

\* ?disabled=${hasErrorMessage}
ButtonDisabled(s) == hasErrorMessage(s)

NoView ==
    [rendered |-> FALSE, serverNameText |-> "", addressText |-> "", errorText |-> "",
     buttonLabel |-> "", buttonDisabled |-> FALSE, menuTriggerClick |-> JsUndefined,
     indicatorState |-> JsUndefined, indicatorClick |-> JsUndefined,
     indicatorKeydown |-> JsUndefined, indicatorTitle |-> JsUndefined]

SharedView(s, ref) ==
    [rendered |-> TRUE,
     serverNameText |-> ChildText(serverName(s)),
     addressText |-> ChildText(s.address),
     errorText |-> ChildText(error(s)),
     buttonLabel |-> connectButton(s),
     buttonDisabled |-> ButtonDisabled(s),
     menuTriggerClick |-> MenuTriggerClick(ref),
     indicatorState |-> s.connectionState,
     indicatorClick |-> JsUndefined,
     indicatorKeydown |-> JsUndefined,
     indicatorTitle |-> JsUndefined]

RowRender(s, ref) == SharedView(s, ref)

HeroRender(s, ref) ==
    [SharedView(s, ref) EXCEPT
        !.indicatorClick = HeroIndicatorClick(s),
        !.indicatorKeydown = "connectToggleKeyboardDispatcher",
        !.indicatorTitle = localizer(ConnectionStatusKey(s))]

RenderLocalizerCalls(c, s) ==
    SharedLocalizerCalls(s) \cup (IF c = "hero" THEN {ConnectionStatusKey(s)} ELSE {})

Keys == {"Enter", " ", "Tab"}

Op(name) ==
    [op |-> name, ran |-> "none", key |-> "", defaultPrevented |-> FALSE,
     propagationStopped |-> FALSE, threw |-> FALSE]

\* ----------------------------------------------------------------- Init

\* The element has been created and given its server, localizer and root
\* path; its first update is scheduled and nothing is rendered yet.
Init ==
    /\ card \in {"row", "hero"}
    /\ server \in ServerListItem
    /\ updatePending = TRUE
    /\ view = NoView
    /\ shown = JsUndefined
    /\ menuRef = FALSE
    /\ menuOpen = FALSE
    /\ hostOpen = FALSE
    /\ localizerCalls = {}
    /\ last = Op("construct")
    /\ dispatched = <<>>

\* ------------------------------------------------------- owner, framework

\* The server items that differ from s in exactly one field.
OneFieldChanged(s) ==
    {[s EXCEPT !.connectionState = v] : v \in ServerConnectionState \ {s.connectionState}}
    \cup {[s EXCEPT !.errorMessageId = v] : v \in ErrorMessageIds \ {s.errorMessageId}}
    \cup {[s EXCEPT !.name = v] : v \in ServerNames \ {s.name}}
    \cup {[s EXCEPT !.id = v] : v \in ServerIds \ {s.id}}
    \cup {[s EXCEPT !.isOutlineServer = v] : v \in BOOLEAN \ {s.isOutlineServer}}

\* The owner assigns a new object to the element's server property (a copy
\* of the old one with a field changed; further assignments before the
\* update runs change more): the property's setter schedules an update.
OwnerSetServer ==
    /\ server' \in OneFieldChanged(server)
    /\ updatePending' = TRUE
    /\ last' = Op("ownerSetServer")
    /\ dispatched' = <<>>
    /\ UNCHANGED <<card, view, shown, menuRef, menuOpen, hostOpen, localizerCalls>>

\* The owner writes a field of the object the element already holds: the
\* server property itself is not assigned, so no update is scheduled.
OwnerWriteField ==
    /\ server' \in OneFieldChanged(server)
    /\ last' = Op("ownerWriteField")
    /\ dispatched' = <<>>
    /\ UNCHANGED <<card, updatePending, view, shown, menuRef, menuOpen, hostOpen, localizerCalls>>

\* The owner asks for a render (requestUpdate).
OwnerRequestUpdate ==
    /\ ~updatePending
    /\ updatePending' = TRUE
    /\ last' = Op("ownerRequestUpdate")
    /\ dispatched' = <<>>
    /\ UNCHANGED <<card, server, view, shown, menuRef, menuOpen, hostOpen, localizerCalls>>

\* The scheduled update: render() runs and its result is committed; the ref
\* directive then stores the <mwc-menu> element in menu.value.
Render ==
    /\ updatePending
    /\ updatePending' = FALSE
    /\ view' = IF card = "row" THEN RowRender(server, menuRef) ELSE HeroRender(server, menuRef)
    /\ shown' = [connectionState |-> server.connectionState,
                 errorMessageId |-> server.errorMessageId]
    /\ localizerCalls' = RenderLocalizerCalls(card, server)
    /\ menuRef' = TRUE
    /\ last' = Op("render")
    /\ dispatched' = <<>>
    /\ UNCHANGED <<card, server, menuOpen, hostOpen>>

\* --------------------------------------------------------- user actions

\* A user event is a task of its own: it finds the element rendered and no
\* update pending (updates run at the end of the task that scheduled them).
Interactive == view.rendered /\ ~updatePending

\* Click on the menu trigger (mwc-icon-button). With no listener nothing
\* runs. Otherwise the listener is Menu's show, called by the template
\* library with the card element as receiver: show sets open on its receiver.
ClickMenuTrigger ==
    /\ Interactive
    /\ IF view.menuTriggerClick = "show"
       THEN /\ hostOpen' = TRUE
            /\ last' = [Op("clickMenuTrigger") EXCEPT !.ran = "show"]
       ELSE /\ hostOpen' = hostOpen
            /\ last' = Op("clickMenuTrigger")
    /\ dispatched' = <<>>
    /\ UNCHANGED <<card, server, updatePending, view, shown, menuRef, menuOpen, localizerCalls>>

\* Click on the menu's "rename" item. (The two items carry their listeners
\* from every render on; showing and hiding them is the menu's business.)
ClickRename ==
    /\ Interactive
    /\ dispatched' = beginRename(server)
    /\ last' = [Op("clickRename") EXCEPT !.ran = "beginRename"]
    /\ UNCHANGED <<card, server, updatePending, view, shown, menuRef, menuOpen, hostOpen, localizerCalls>>

\* Click on the menu's "forget" item.
ClickForget ==
    /\ Interactive
    /\ dispatched' = forget(server)
    /\ last' = [Op("clickForget") EXCEPT !.ran = "forget"]
    /\ UNCHANGED <<card, server, updatePending, view, shown, menuRef, menuOpen, hostOpen, localizerCalls>>

\* A footer click that also marks the server as connecting.
ClickFooterButton_Optimistic ==
    /\ view.rendered /\ ~updatePending
    /\ ~view.buttonDisabled
    /\ dispatched' = connectToggle(server)
    /\ server' = [server EXCEPT !.connectionState = CONNECTING]
    /\ last' = [Op("clickFooterButton") EXCEPT !.ran = "connectToggle"]
    /\ UNCHANGED <<card, updatePending, view, shown, menuRef, menuOpen, hostOpen, localizerCalls>>

\* Click on the footer's mwc-button; a disabled button takes no click.
ClickFooterButton ==
    /\ Interactive
    /\ ~view.buttonDisabled
    /\ dispatched' = connectToggle(server)
    /\ last' = [Op("clickFooterButton") EXCEPT !.ran = "connectToggle"]
    /\ UNCHANGED <<card, server, updatePending, view, shown, menuRef, menuOpen, hostOpen, localizerCalls>>

\* Click on the hero card's connection indicator. The listener is the value
\* the last render bound: connectToggle, or false, which is not callable
\* (the call throws inside the listener and nothing is dispatched).
ClickIndicator ==
    /\ Interactive
    /\ card = "hero"
    /\ IF view.indicatorClick = "connectToggle"
       THEN /\ dispatched' = connectToggle(server)
            /\ last' = [Op("clickIndicator") EXCEPT !.ran = "connectToggle"]
       ELSE /\ dispatched' = <<>>
            /\ last' = [Op("clickIndicator") EXCEPT !.threw = TRUE]
    /\ UNCHANGED <<card, server, updatePending, view, shown, menuRef, menuOpen, hostOpen, localizerCalls>>

\* Key press on the hero card's connection indicator
\* (connectToggleKeyboardDispatcher).
KeydownIndicator ==
    /\ Interactive
    /\ card = "hero"
    /\ \E key \in Keys :
        /\ dispatched' = IF key = "Enter" THEN connectToggle(server) ELSE <<>>
        /\ last' = [Op("keydownIndicator") EXCEPT
                        !.key = key,
                        !.defaultPrevented = TRUE,
                        !.propagationStopped = TRUE,
                        !.ran = IF key = "Enter" THEN "connectToggle" ELSE "none"]
    /\ UNCHANGED <<card, server, updatePending, view, shown, menuRef, menuOpen, hostOpen, localizerCalls>>

Next ==
    \/ OwnerSetServer
    \/ OwnerWriteField
    \/ OwnerRequestUpdate
    \/ Render
    \/ ClickMenuTrigger
    \/ ClickRename
    \/ ClickForget
    \/ ClickFooterButton
    \/ ClickIndicator
    \/ KeydownIndicator

Spec == Init /\ [][Next]_vars

\* ------------------------------------------------------------- claims

ConnectedIsh == {"connecting", "connected", "reconnecting"}

ToggleEvents == {"ConnectPressed", "DisconnectPressed"}

UserOps ==
    {"clickMenuTrigger", "clickRename", "clickForget", "clickFooterButton",
     "clickIndicator", "keydownIndicator"}

IsSet(errorMessageId) == errorMessageId \notin {JsUndefined, ""}

DispatchedTypes == {dispatched[i].event.type : i \in DOMAIN dispatched}

\* C1: whenever a handler has run connectToggle, exactly one event has been
\* dispatched, and it is DisconnectPressed when the server's connectionState
\* is connecting, connected or reconnecting and ConnectPressed otherwise.
C1_ToggleDispatchesOneEvent ==
    last.ran = "connectToggle" =>
        /\ Len(dispatched) = 1
        /\ dispatched[1].event.type =
              IF server.connectionState \in ConnectedIsh
              THEN "DisconnectPressed" ELSE "ConnectPressed"

C1_Witness ==
    /\ last.ran = "connectToggle"
    /\ server.connectionState = "reconnecting"
    /\ DispatchedTypes = {"DisconnectPressed"}

\* C2: every dispatched event is one of the four, carries the id of the
\* displayed server as detail.serverId and is bubbling and composed; the
\* rename item raises ShowServerRename and the forget item ForgetPressed.
C2_EventPayload ==
    /\ \A i \in DOMAIN dispatched :
          /\ dispatched[i].event.type \in
                {"ConnectPressed", "DisconnectPressed", "ForgetPressed", "ShowServerRename"}
          /\ dispatched[i].event.detail = [serverId |-> server.id]
          /\ dispatched[i].event.bubbles
          /\ dispatched[i].event.composed
    /\ last.op = "clickRename" => DispatchedTypes = {"ShowServerRename"}
    /\ last.op = "clickForget" => DispatchedTypes = {"ForgetPressed"}

C2_Witness ==
    /\ last.op = "clickForget"
    /\ Len(dispatched) = 1
    /\ dispatched[1].event.detail.serverId = "server-2"

\* C3: in the hero card, Enter on the connection indicator while the server
\* has an errorMessageId set dispatches no event.
C3_EnterSuppressedOnError ==
    (card = "hero" /\ last.op = "keydownIndicator" /\ last.key = "Enter"
        /\ IsSet(server.errorMessageId))
    => dispatched = <<>>

\* C4 as stated: in the hero card, a click on the connection indicator
\* dispatches the toggle event when the server has no errorMessageId and no
\* event when it has one.
C4_ClickFollowsCurrentError ==
    last.op = "clickIndicator" =>
        IF IsSet(server.errorMessageId)
        THEN dispatched = <<>>
        ELSE Len(dispatched) = 1 /\ DispatchedTypes \subseteq ToggleEvents

\* C4 amended: a click on the hero card's connection indicator dispatches
\* the toggle event when the server had no errorMessageId at the card's
\* last render, and no event when it had one.
C4_ClickFollowsRenderedError ==
    last.op = "clickIndicator" =>
        IF IsSet(shown.errorMessageId)
        THEN dispatched = <<>>
        ELSE /\ Len(dispatched) = 1
             /\ dispatched[1].event.type =
                   IF server.connectionState \in ConnectedIsh
                   THEN "DisconnectPressed" ELSE "ConnectPressed"

C4_Witness ==
    /\ last.op = "clickIndicator"
    /\ IsSet(shown.errorMessageId)
    /\ IsSet(server.errorMessageId)
    /\ dispatched = <<>>

\* C5 as stated: whenever the card can take user input, the footer button is
\* disabled exactly when the server has an errorMessageId set, and on a row
\* card no ConnectPressed or DisconnectPressed has been dispatched while the
\* server has one.
C5_DisabledFollowsCurrentError ==
    (view.rendered /\ ~updatePending) =>
        /\ view.buttonDisabled = IsSet(server.errorMessageId)
        /\ (card = "row" /\ IsSet(server.errorMessageId))
              => DispatchedTypes \cap ToggleEvents = {}

\* C5 amended: the footer button is disabled exactly when the server had an
\* errorMessageId set at the card's last render, and a row card rendered
\* with an error dispatches no ConnectPressed or DisconnectPressed.
C5_DisabledFollowsRenderedError ==
    view.rendered =>
        /\ view.buttonDisabled = IsSet(shown.errorMessageId)
        /\ (card = "row" /\ IsSet(shown.errorMessageId))
              => DispatchedTypes \cap ToggleEvents = {}

C5_Witness ==
    /\ card = "row"
    /\ view.rendered /\ ~updatePending
    /\ view.buttonDisabled
    /\ IsSet(server.errorMessageId)
    /\ last.op \in UserOps

\* C6: what a render shows as the server's name is the server's own name
\* when there is one to show, and otherwise the localized default for the
\* kind of server.
C6_NameOrDefault ==
    last.op = "render" =>
        view.serverNameText =
            IF server.name \notin {JsUndefined, ""}
            THEN server.name
            ELSE IF server.isOutlineServer
                 THEN localizer("server-default-name-outline")
                 ELSE localizer("server-default-name")

\* C7: after a render the error span shows something if and only if
\* errorMessageId is set, what it shows is the localizer's result for that
\* id, and the render passed no absent id to the localizer.
C7_ErrorShownIffSet ==
    last.op = "render" =>
        /\ (view.errorText # "") <=> IsSet(server.errorMessageId)
        /\ IsSet(server.errorMessageId) => view.errorText = localizer(server.errorMessageId)
        /\ JsUndefined \notin localizerCalls

\* C8 as stated: whenever the card can take user input, the label on display
\* is the disconnect label exactly when an activation would dispatch
\* DisconnectPressed, and the connect label exactly when it would dispatch
\* ConnectPressed.
C8_LabelAgreesWithEvent ==
    (view.rendered /\ ~updatePending) =>
        /\ (view.buttonLabel = localizer("disconnect-button-label"))
              <=> (connectToggle(server)[1].event.type = "DisconnectPressed")
        /\ (view.buttonLabel = localizer("connect-button-label"))
              <=> (connectToggle(server)[1].event.type = "ConnectPressed")

\* C8 amended: the label on display is the one for the connectionState the
\* server had at the last render, and the event of an activation is the one
\* for the connectionState it has when the handler runs; the two agree
\* whenever connectionState is on the same side of the connected-ish test as
\* it was at the last render.
C8_LabelOfRenderEventOfNow ==
    view.rendered =>
        /\ (view.buttonLabel = localizer("disconnect-button-label"))
              <=> (shown.connectionState \in ConnectedIsh)
        /\ (view.buttonLabel = localizer("connect-button-label"))
              <=> (shown.connectionState \notin ConnectedIsh)
        /\ last.ran = "connectToggle" =>
              (DispatchedTypes = {"DisconnectPressed"}
                  <=> server.connectionState \in ConnectedIsh)
        /\ ((server.connectionState \in ConnectedIsh)
                  <=> (shown.connectionState \in ConnectedIsh))
              => ((view.buttonLabel = localizer("disconnect-button-label"))
                     <=> (connectToggle(server)[1].event.type = "DisconnectPressed"))

C8_Witness ==
    /\ last.ran = "connectToggle"
    /\ shown.connectionState = "disconnected"
    /\ server.connectionState = "disconnecting"
    /\ view.buttonLabel = localizer("connect-button-label")
    /\ DispatchedTypes = {"ConnectPressed"}

\* C9: a click on the menu trigger leaves the menu open, the first click
\* after the initial render included.
C9_TriggerOpensMenu ==
    last.op = "clickMenuTrigger" => menuOpen

\* C10: only the owner's steps change a field of the server, and only a
\* user's activation dispatches events (a render dispatches none).
C10_CardsOnlyRead ==
    [][/\ last'.op \notin {"ownerSetServer", "ownerWriteField"} => server' = server
       /\ last'.op \notin UserOps => dispatched' = <<>>]_vars

C10_Witness ==
    /\ last.op = "clickFooterButton"
    /\ dispatched # <<>>
    /\ card = "hero"

====
